---- MODULE Spec2Model ----
(***************************************************************************)
(* The adaptive RAG graph of graph/graph.py: the LangGraph workflow        *)
(* ROUTE -> retrieve -> grade_documents -> (websearch) -> generate, with   *)
(* the grounding check on the edge that leaves generate.  The graph state  *)
(* is a Python dict, modelled as a function whose domain is the set of     *)
(* keys written so far.  The collaborators (classifier, retriever,         *)
(* graders, web search, generator) are nondeterministic inputs.            *)
(***************************************************************************)
EXTENDS Integers, Sequences, FiniteSets, TLC

\* ---------------------------------------------------------------- bounds
MaxDocs == 2        \* longest sequence the retriever returns in the model
MaxSnips == 2       \* most snippets one web search returns in the model
MaxSteps == 8       \* supersteps LangGraph runs before GraphRecursionError
MaxRunSteps == 6    \* the same limit for each of two invocations in flight

\* ------------------------------------------------------------- constants
MAX_RETRIES == 3
RETRIEVE == "retrieve"
GRADE_DOCUMENTS == "grade_documents"
GENERATE == "generate"
WEBSEARCH == "websearch"
GRAPH_ENTRY_POINT == "ROUTE"
END == "END"
FAILED == "FAILED"
RECURSION_ERROR == "RECURSION_ERROR"

\* ---------------------------------------------------------------- values
\* The channels of the graph state: the annotated keys of GraphState.
GraphState == {"question", "generation", "web_search", "documents", "tries"}

\* The inputs the callers pass to app.invoke: {"question": q}.
Questions == {"", "what is agent memory"}

\* A Document: page_content and the keys of its metadata.  Documents of
\* the knowledge base carry the loader's metadata; the Document that
\* web_search builds has none.
KBDocuments ==
    { [page_content |-> "a", metadata |-> {"source", "title"}],
      [page_content |-> "b", metadata |-> {"source", "title"}] }

Document(page_content) == [page_content |-> page_content, metadata |-> {}]

SeqsUpTo(S, n) == UNION { [1..k -> S] : k \in 0..n }

\* The retriever answers with a list of documents or raises.
RetrieverOutcomes ==
    { [raised |-> FALSE, documents |-> d] : d \in SeqsUpTo(KBDocuments, MaxDocs) }
      \cup { [raised |-> TRUE, documents |-> <<>>] }

\* question_router: result.datasource, or an exception.
RouterOutcomes == {"vectorstore", "websearch", "error"}

\* retrieval_grader: score.binary_score (a string), or an exception.
GraderOutcomes == {"yes", "Yes", "no", "error"}

\* hallucination_grader: score.binary_score (a bool), or an exception.
HallucinationOutcomes == {"True", "False", "error"}

\* generation_chain: "unconfigured" is the plain function _fallback_answer
\* (no API key); otherwise the chain raises or returns a string.
FallbackAnswer ==
    "Missing Gemini API key. Set GOOGLE_API_KEY or GEMINI_API_KEY to enable generation.\nReturned without calling an LLM."
GenerationOutcomes ==
    { [kind |-> "unconfigured", text |-> FallbackAnswer],
      [kind |-> "error", text |-> ""],
      [kind |-> "ok", text |-> ""],
      [kind |-> "ok", text |-> "answer"] }

\* The web search tool: not built (None), raises, or returns results.
Snippets == {"", "w"}
WebSearchOutcomes ==
    { [kind |-> "ok", results |-> r] : r \in SeqsUpTo(Snippets, MaxSnips) }
      \cup { [kind |-> "unconfigured", results |-> <<>>],
             [kind |-> "error", results |-> <<>>] }

\* The record kept for a collaborator that has not been called yet.
NoCall == [kind |-> "none"]

\* ------------------------------------------------------ dict operations
\* state.get(key, default)
Get(s, key, default) == IF key \in DOMAIN s THEN s[key] ELSE default

\* LangGraph merges a node's returned dict into the state: only the keys
\* that are channels of GraphState are written, the others are dropped.
ApplyUpdate(s, update) ==
    [ k \in DOMAIN s \cup (DOMAIN update \cap GraphState) |->
        IF k \in DOMAIN update THEN update[k] ELSE s[k] ]

\* str.lower() on the grades of the model
Lower(s) == CASE s = "Yes" -> "yes" [] s = "YES" -> "yes"
              [] s = "No" -> "no" [] OTHER -> s

\* "\n".join(contents)
RECURSIVE Join(_)
Join(contents) ==
    IF contents = <<>> THEN ""
    ELSE IF Len(contents) = 1 THEN contents[1]
    ELSE contents[1] \o "\n" \o Join(Tail(contents))

Count(seq, x) == Cardinality({ i \in 1..Len(seq) : seq[i] = x })

VARIABLES
    state,      \* the graph state (dict) of the run
    pc,         \* the node LangGraph runs next, or END / FAILED / RECURSION_ERROR
    trace,      \* the nodes executed so far, in order
    routed,     \* the "route" value route_question returned ("" before ROUTE)
    retrieved,  \* the documents the retriever returned to retrieve
    retrieval_failed, \* whether the retriever raised
    runs,       \* two invocations of app in flight: the state, node and step count of each
    heap,       \* the list objects the documents of the two invocations refer to
    scores,     \* the retrieval grader's answer for each retrieved document
    classified, \* the classifier's answers to the ROUTE node and to its edge, if asked
    searched,   \* what the web search tool gave to the last websearch
    generated,  \* what generation_chain gave to the last generate
    grounding   \* the grounding grader's answer at the last grounding check, if asked

run_vars == <<state, pc, trace, routed, retrieved, retrieval_failed, scores,
              classified, searched, generated, grounding>>

vars == <<state, pc, trace, routed, retrieved, retrieval_failed, scores,
          classified, searched, generated, grounding, runs, heap>>

Init ==
    /\ state \in { [question |-> q] : q \in Questions }
    /\ pc = GRAPH_ENTRY_POINT
    /\ trace = <<>>
    /\ routed = ""
    /\ retrieved = <<>>
    /\ retrieval_failed = FALSE
    /\ runs = <<>>
    /\ heap = <<>>
    /\ scores = <<>>
    /\ classified = <<>>
    /\ searched = NoCall
    /\ generated = NoCall
    /\ grounding = ""

\* ------------------------------------------------------------- the nodes
\* ROUTE node: the dict it returns.  c is the classifier's answer.
route_question(s, c) ==
    LET question == Get(s, "question", "") IN
    IF question = "" THEN [route |-> RETRIEVE]
    ELSE IF c = "error" THEN [route |-> RETRIEVE]
    ELSE IF c = "vectorstore" THEN [route |-> RETRIEVE]
    ELSE [route |-> WEBSEARCH]

\* The conditional edge that leaves ROUTE: it asks the classifier again.
route_question_conditional(s, c) ==
    LET question == Get(s, "question", "") IN
    IF question = "" THEN RETRIEVE
    ELSE IF c = "error" THEN RETRIEVE
    ELSE IF c = "vectorstore" THEN RETRIEVE
    ELSE WEBSEARCH

\* retrieve node.  r is the retriever's answer.
retrieve_clearing_question(s, r) ==
    LET question == Get(s, "question", "") IN
    IF question = "" THEN [documents |-> <<>>, question |-> ""]
    ELSE IF r.raised THEN [documents |-> <<>>, question |-> ""]
    ELSE [documents |-> r.documents, question |-> question]

retrieve_without_empty_check(s, r) ==
    LET question == Get(s, "question", "") IN
    IF r.raised THEN [documents |-> <<>>, question |-> Get(s, "question", "")]
    ELSE [documents |-> r.documents, question |-> question]

retrieve(s, r) ==
    LET question == Get(s, "question", "") IN
    IF question = "" THEN [documents |-> <<>>, question |-> ""]
    ELSE IF r.raised THEN [documents |-> <<>>, question |-> Get(s, "question", "")]
    ELSE [documents |-> r.documents, question |-> question]

\* The for loop of grade_documents over the first n documents: the list
\* filtered_docs, the flag web_search, and whether the grader raised.
RECURSIVE grade_loop_reversed(_, _, _)
grade_loop_reversed(documents, score, n) ==
    IF n = 0 THEN [filtered_docs |-> <<>>, web_search |-> FALSE, raised |-> FALSE]
    ELSE LET r == grade_loop_reversed(documents, score, n - 1) IN
         IF r.raised THEN r
         ELSE IF score[n] = "error" THEN [r EXCEPT !.raised = TRUE]
         ELSE IF Lower(score[n]) = "yes"
              THEN [r EXCEPT !.filtered_docs = <<documents[n]>> \o @]
              ELSE [r EXCEPT !.web_search = TRUE]

RECURSIVE grade_loop_skipping_first(_, _, _)
grade_loop_skipping_first(documents, score, n) ==
    IF n <= 1 THEN [filtered_docs |-> <<>>, web_search |-> FALSE, raised |-> FALSE]
    ELSE LET r == grade_loop_skipping_first(documents, score, n - 1) IN
         IF r.raised THEN r
         ELSE IF score[n] = "error" THEN [r EXCEPT !.raised = TRUE]
         ELSE IF Lower(score[n]) = "yes"
              THEN [r EXCEPT !.filtered_docs = Append(@, documents[n])]
              ELSE [r EXCEPT !.web_search = TRUE]

RECURSIVE grade_loop(_, _, _)
grade_loop(documents, score, n) ==
    IF n = 0 THEN [filtered_docs |-> <<>>, web_search |-> FALSE, raised |-> FALSE]
    ELSE LET r == grade_loop(documents, score, n - 1) IN
         IF r.raised THEN r
         ELSE IF score[n] = "error" THEN [r EXCEPT !.raised = TRUE]
         ELSE IF Lower(score[n]) = "yes"
              THEN [r EXCEPT !.filtered_docs = Append(@, documents[n])]
              ELSE [r EXCEPT !.web_search = TRUE]

\* The documents, by position, for which the for loop of grade_documents
\* calls retrieval_grader.invoke: the loop ends at the first call that
\* raises.
RECURSIVE grader_invocations(_, _)
grader_invocations(score, n) ==
    IF n = 0 THEN <<>>
    ELSE IF \E i \in 1..(n - 1) : score[i] = "error"
         THEN grader_invocations(score, n - 1)
         ELSE Append(grader_invocations(score, n - 1), n)

\* grade_documents node.  score[i] is the grader's answer for document i.
grade_documents(s, score) ==
    IF "documents" \notin DOMAIN s
    THEN [documents |-> <<>>, question |-> s["question"], web_search |-> TRUE]
    ELSE LET r == grade_loop(s["documents"], score, Len(s["documents"])) IN
         IF r.raised
         THEN [documents |-> <<>>, question |-> s["question"], web_search |-> TRUE]
         ELSE [documents |-> r.filtered_docs, question |-> s["question"],
               web_search |-> r.web_search]

\* The conditional edge that leaves grade_documents.
decide_to_generate_always(s) == GENERATE

decide_to_generate_on_empty_documents(s) ==
    IF Get(s, "documents", <<>>) = <<>> THEN WEBSEARCH ELSE GENERATE

decide_to_generate(s) ==
    IF Get(s, "web_search", FALSE) THEN WEBSEARCH ELSE GENERATE

\* websearch node.  w is what building and invoking the tool gives.
web_search_replacing_documents(s, w) ==
    LET question == s["question"]
        hasDocuments == "documents" \in DOMAIN s
    IN  IF w.kind = "unconfigured"
        THEN [documents |-> IF hasDocuments THEN s["documents"] ELSE <<>>,
              question |-> question, web_search |-> TRUE]
        ELSE IF w.kind = "error"
        THEN [documents |-> <<>>, question |-> question, web_search |-> TRUE]
        ELSE [documents |-> <<Document(Join(w.results))>>,
              question |-> question, web_search |-> TRUE]

web_search_without_default(s, w) ==
    LET question == s["question"]
        hasDocuments == "documents" \in DOMAIN s
    IN  IF w.kind = "unconfigured"
        THEN IF hasDocuments
             THEN [documents |-> s["documents"], question |-> question,
                   web_search |-> TRUE]
             ELSE [question |-> question, web_search |-> TRUE]
        ELSE IF w.kind = "error"
        THEN [documents |-> <<>>, question |-> question, web_search |-> TRUE]
        ELSE LET web_results == Document(Join(w.results)) IN
             [documents |-> IF hasDocuments THEN Append(s["documents"], web_results)
                            ELSE <<web_results>>,
              question |-> question, web_search |-> TRUE]

web_search_clearing_flag_when_unconfigured(s, w) ==
    LET question == s["question"]
        hasDocuments == "documents" \in DOMAIN s
    IN  IF w.kind = "unconfigured"
        THEN [documents |-> IF hasDocuments THEN s["documents"] ELSE <<>>,
              question |-> question, web_search |-> FALSE]
        ELSE IF w.kind = "error"
        THEN [documents |-> <<>>, question |-> question, web_search |-> TRUE]
        ELSE LET web_results == Document(Join(w.results)) IN
             [documents |-> IF hasDocuments THEN Append(s["documents"], web_results)
                            ELSE <<web_results>>,
              question |-> question, web_search |-> TRUE]

web_search_appending_each_result(s, w) ==
    LET question == s["question"]
        hasDocuments == "documents" \in DOMAIN s
    IN  IF w.kind = "unconfigured"
        THEN [documents |-> IF hasDocuments THEN s["documents"] ELSE <<>>,
              question |-> question, web_search |-> TRUE]
        ELSE IF w.kind = "error"
        THEN [documents |-> <<>>, question |-> question, web_search |-> TRUE]
        ELSE LET web_results == [i \in 1..Len(w.results) |-> Document(w.results[i])] IN
             [documents |-> IF hasDocuments THEN s["documents"] \o web_results
                            ELSE web_results,
              question |-> question, web_search |-> TRUE]

web_search(s, w) ==
    LET question == s["question"]
        hasDocuments == "documents" \in DOMAIN s
    IN  IF w.kind = "unconfigured"
        THEN [documents |-> IF hasDocuments THEN s["documents"] ELSE <<>>,
              question |-> question, web_search |-> TRUE]
        ELSE IF w.kind = "error"
        THEN [documents |-> <<>>, question |-> question, web_search |-> TRUE]
        ELSE LET web_results == Document(Join(w.results)) IN
             [documents |-> IF hasDocuments THEN Append(s["documents"], web_results)
                            ELSE <<web_results>>,
              question |-> question, web_search |-> TRUE]

\* generate node: it raises when a key it indexes is missing or when
\* generation_chain.invoke raises; _fallback_answer, the chain built
\* without an API key, is a plain function and has no invoke.
generate_raises(s, g) ==
    \/ "question" \notin DOMAIN s
    \/ "documents" \notin DOMAIN s
    \/ g.kind \in {"unconfigured", "error"}

generate_counting_tries(s, g) ==
    [documents |-> s["documents"], question |-> s["question"],
     generation |-> g.text, web_search |-> Get(s, "web_search", FALSE),
     tries |-> Get(s, "tries", 0) + 1]

generate_resetting_web_search(s, g) ==
    [documents |-> s["documents"], question |-> s["question"],
     generation |-> g.text, web_search |-> FALSE]

generate_clearing_documents(s, g) ==
    [documents |-> <<>>, question |-> s["question"],
     generation |-> g.text, web_search |-> Get(s, "web_search", FALSE)]

generate(s, g) ==
    [documents |-> s["documents"], question |-> s["question"],
     generation |-> g.text, web_search |-> Get(s, "web_search", FALSE)]

\* The conditional edge that leaves generate.  h is the grounding
\* grader's answer.
grade_generation_without_generation_check(s, h) ==
    LET documents == Get(s, "documents", <<>>)
    IN  IF documents = <<>> THEN "not supported"
        ELSE IF h = "True" THEN "useful"
        ELSE "not supported"

grade_generation_fail_open(s, h) ==
    LET documents == Get(s, "documents", <<>>)
        generation == Get(s, "generation", "")
    IN  IF documents = <<>> \/ generation = "" THEN "not supported"
        ELSE IF h = "error" THEN "useful"
        ELSE IF h = "True" THEN "useful"
        ELSE "not supported"

grade_generation_without_documents_check(s, h) ==
    LET generation == Get(s, "generation", "")
    IN  IF generation = "" THEN "not supported"
        ELSE IF h = "error" THEN "not supported"
        ELSE IF h = "True" THEN "useful"
        ELSE "not supported"

grade_generation_grounded_in_documents_and_question(s, h) ==
    LET documents == Get(s, "documents", <<>>)
        generation == Get(s, "generation", "")
    IN  IF documents = <<>> \/ generation = "" THEN "not supported"
        ELSE IF h = "error" THEN "not supported"
        ELSE IF h = "True" THEN "useful"
        ELSE "not supported"

\* The grounding check calls hallucination_grader only past its guard.
GraderInvoked(s) ==
    Get(s, "documents", <<>>) # <<>> /\ Get(s, "generation", "") # ""

\* workflow.add_conditional_edges(GENERATE, ..., {"not supported": GENERATE, "useful": END})
GenerateEdge_retrying_web_search(verdict) ==
    IF verdict = "useful" THEN END ELSE WEBSEARCH

GenerateEdge(verdict) == IF verdict = "useful" THEN END ELSE GENERATE

\* ----------------------------------------------------------- the actions
\* One action is one superstep of the compiled graph: the node, the merge
\* of its update into the state, and the edge that picks the next node.
CanStep == Len(trace) < MaxSteps

Route ==
    /\ pc = GRAPH_ENTRY_POINT
    /\ CanStep
    /\ \E c1 \in RouterOutcomes, c2 \in RouterOutcomes :
         LET update == route_question(state, c1)
             s2 == ApplyUpdate(state, update)
         IN  /\ state' = s2
             /\ routed' = update["route"]
             /\ pc' = route_question_conditional(s2, c2)
             /\ classified' = IF Get(state, "question", "") = ""
                              THEN <<>> ELSE <<c1, c2>>
    /\ trace' = Append(trace, GRAPH_ENTRY_POINT)
    /\ UNCHANGED <<retrieved, retrieval_failed, scores, searched, generated, grounding>>
    /\ UNCHANGED <<runs, heap>>

Retrieve ==
    /\ pc = RETRIEVE
    /\ CanStep
    /\ \E r \in RetrieverOutcomes :
         LET update == retrieve(state, r) IN
         /\ state' = ApplyUpdate(state, update)
         /\ retrieved' = update["documents"]
         /\ retrieval_failed' = (Get(state, "question", "") # "" /\ r.raised)
    /\ pc' = GRADE_DOCUMENTS
    /\ trace' = Append(trace, RETRIEVE)
    /\ UNCHANGED <<routed, scores, classified, searched, generated, grounding>>
    /\ UNCHANGED <<runs, heap>>

GradeDocuments ==
    /\ pc = GRADE_DOCUMENTS
    /\ CanStep
    /\ \E score \in [1..Len(Get(state, "documents", <<>>)) -> GraderOutcomes] :
         LET s2 == ApplyUpdate(state, grade_documents(state, score)) IN
         /\ state' = s2
         /\ scores' = score
         /\ pc' = decide_to_generate(s2)
    /\ trace' = Append(trace, GRADE_DOCUMENTS)
    /\ UNCHANGED <<routed, retrieved, retrieval_failed, classified, searched,
                   generated, grounding>>
    /\ UNCHANGED <<runs, heap>>

WebSearch ==
    /\ pc = WEBSEARCH
    /\ CanStep
    /\ \E w \in WebSearchOutcomes :
         /\ state' = ApplyUpdate(state, web_search(state, w))
         /\ searched' = w
    /\ pc' = GENERATE
    /\ trace' = Append(trace, WEBSEARCH)
    /\ UNCHANGED <<routed, retrieved, retrieval_failed, scores, classified,
                   generated, grounding>>
    /\ UNCHANGED <<runs, heap>>

Generate ==
    /\ pc = GENERATE
    /\ CanStep
    /\ \E g \in GenerationOutcomes :
         /\ generated' = g
         /\ IF generate_raises(state, g)
            THEN /\ pc' = FAILED
                 /\ state' = state
                 /\ grounding' = grounding
            ELSE \E h \in HallucinationOutcomes :
                 LET s2 == ApplyUpdate(state, generate(state, g)) IN
                 /\ state' = s2
                 /\ grounding' = IF GraderInvoked(s2) THEN h ELSE ""
                 /\ pc' = GenerateEdge(
                       grade_generation_grounded_in_documents_and_question(s2, h))
    /\ trace' = Append(trace, GENERATE)
    /\ UNCHANGED <<routed, retrieved, retrieval_failed, scores, classified, searched>>
    /\ UNCHANGED <<runs, heap>>

\* LangGraph stops a run that has not reached END within its step limit.
RecursionLimit ==
    /\ pc \in {GRAPH_ENTRY_POINT, RETRIEVE, GRADE_DOCUMENTS, WEBSEARCH, GENERATE}
    /\ ~CanStep
    /\ pc' = RECURSION_ERROR
    /\ UNCHANGED <<state, trace, routed, retrieved, retrieval_failed, scores,
                   classified, searched, generated, grounding>>
    /\ UNCHANGED <<runs, heap>>

Next ==
    \/ Route
    \/ Retrieve
    \/ GradeDocuments
    \/ WebSearch
    \/ Generate
    \/ RecursionLimit

Spec == Init /\ [][Next]_vars

\* ------------------------------------------- two invocations in flight
\* app is one compiled graph (graph.py:154); each app.invoke starts from
\* the caller's own dict.  A documents value is a Python list: a state
\* holds a reference to it, heap[a] is the list at reference a, and
\* list.append changes the list for every state that refers to it.
Runs == {1, 2}

RunQuestions == <<"what is agent memory", "what is prompt engineering">>

\* The collaborator answers drawn for the two invocations.
RunRouterOutcomes == {"vectorstore", "websearch"}
RunRetrieverOutcomes ==
    { r \in RetrieverOutcomes :
        r.raised \/ (Len(r.documents) = 2 /\ r.documents[1] # r.documents[2]) }
RunGraderOutcomes == {"yes", "no"}
RunWebSearchOutcomes ==
    { w \in WebSearchOutcomes : w.kind = "ok" => w.results = <<"w">> }
RunGenerationOutcomes ==
    { g \in GenerationOutcomes : g.kind = "error" \/ g.text = "answer" }
RunHallucinationOutcomes == {"True", "False"}

\* The state as a node reads it: documents replaced by the list it refers to.
Deref(h, s) ==
    IF "documents" \in DOMAIN s
    THEN [s EXCEPT !["documents"] = h[s["documents"]]]
    ELSE s

\* A new list object holding documents, and the update that refers to it.
NewList(h, update) ==
    [heap |-> Append(h, update["documents"]),
     update |-> [update EXCEPT !["documents"] = Len(h) + 1]]

\* retrieve returns the list retriever.invoke built for this call, or a
\* new [].
retrieve_on_heap(h, s, r) == NewList(h, retrieve(s, r))

\* grade_documents builds the new list filtered_docs (or a new [] when
\* the grader raised) and leaves the list it read alone.
grade_documents_into_shared_list(h, s, score) ==
    LET update == grade_documents(Deref(h, s), score) IN
    [heap |-> [h EXCEPT ![1] = update["documents"]],
     update |-> [update EXCEPT !["documents"] = 1]]

grade_documents_on_heap(h, s, score) ==
    NewList(h, grade_documents(Deref(h, s), score))

\* web_search: "documents or []" keeps a non-empty list and makes a new []
\* otherwise; documents.append(web_results) changes the list in place;
\* [web_results] and the [] of the except clause are new lists.
web_search_on_heap(h, s, w) ==
    LET update == web_search(Deref(h, s), w)
        hasDocuments == "documents" \in DOMAIN s
    IN  IF w.kind = "unconfigured"
        THEN IF hasDocuments /\ h[s["documents"]] # <<>>
             THEN [heap |-> h,
                   update |-> [update EXCEPT !["documents"] = s["documents"]]]
             ELSE NewList(h, update)
        ELSE IF w.kind = "error"
        THEN NewList(h, update)
        ELSE IF hasDocuments
             THEN [heap |-> [h EXCEPT ![s["documents"]] =
                                Append(@, Document(Join(w.results)))],
                   update |-> [update EXCEPT !["documents"] = s["documents"]]]
             ELSE NewList(h, update)

\* One superstep of invocation i: the node's update merged into its
\* state, the same update computed on the state the invocation has when
\* it runs alone (solo), and the node the edge picks for each.
Step(i, result, solo_update, next, solo_next) ==
    /\ runs' = [runs EXCEPT ![i] =
                  [state |-> ApplyUpdate(@.state, result.update),
                   pc |-> next,
                   steps |-> @.steps + 1,
                   solo |-> ApplyUpdate(@.solo, solo_update),
                   solo_pc |-> solo_next]]
    /\ heap' = result.heap
    /\ UNCHANGED run_vars

CanRun(i, node) == runs[i].pc = node /\ runs[i].steps < MaxRunSteps

RunRoute(i) ==
    /\ CanRun(i, GRAPH_ENTRY_POINT)
    /\ \E c1 \in RunRouterOutcomes, c2 \in RunRouterOutcomes :
         LET s == runs[i].state
             solo == runs[i].solo
         IN  Step(i, [heap |-> heap, update |-> route_question(s, c1)],
                  route_question(solo, c1),
                  route_question_conditional(
                      ApplyUpdate(s, route_question(s, c1)), c2),
                  route_question_conditional(
                      ApplyUpdate(solo, route_question(solo, c1)), c2))

RunRetrieve(i) ==
    /\ CanRun(i, RETRIEVE)
    /\ \E r \in RunRetrieverOutcomes :
         Step(i, retrieve_on_heap(heap, runs[i].state, r),
              retrieve(runs[i].solo, r), GRADE_DOCUMENTS, GRADE_DOCUMENTS)

RunGradeDocuments(i) ==
    /\ CanRun(i, GRADE_DOCUMENTS)
    /\ \E score \in [1..Len(Deref(heap, runs[i].state)["documents"])
                        -> RunGraderOutcomes] :
         LET result == grade_documents_on_heap(heap, runs[i].state, score)
             solo_update == grade_documents(runs[i].solo, score)
         IN  Step(i, result, solo_update,
                  decide_to_generate(
                      Deref(result.heap, ApplyUpdate(runs[i].state, result.update))),
                  decide_to_generate(ApplyUpdate(runs[i].solo, solo_update)))

RunWebSearch(i) ==
    /\ CanRun(i, WEBSEARCH)
    /\ \E w \in RunWebSearchOutcomes :
         Step(i, web_search_on_heap(heap, runs[i].state, w),
              web_search(runs[i].solo, w), GENERATE, GENERATE)

RunGenerate(i) ==
    /\ CanRun(i, GENERATE)
    /\ \E g \in RunGenerationOutcomes, h \in RunHallucinationOutcomes :
         LET s == runs[i].state
             solo == runs[i].solo
         IN  IF generate_raises(s, g)
             THEN Step(i, [heap |-> heap, update |-> <<>>], <<>>, FAILED,
                       IF generate_raises(solo, g) THEN FAILED ELSE GENERATE)
             ELSE Step(i, [heap |-> heap, update |-> generate(s, g)],
                       generate(solo, g),
                       GenerateEdge(
                           grade_generation_grounded_in_documents_and_question(
                               Deref(heap, ApplyUpdate(s, generate(s, g))), h)),
                       GenerateEdge(
                           grade_generation_grounded_in_documents_and_question(
                               ApplyUpdate(solo, generate(solo, g)), h)))

RunRecursionLimit(i) ==
    /\ runs[i].pc \in {GRAPH_ENTRY_POINT, RETRIEVE, GRADE_DOCUMENTS, WEBSEARCH, GENERATE}
    /\ runs[i].steps >= MaxRunSteps
    /\ runs' = [runs EXCEPT ![i].pc = RECURSION_ERROR,
                            ![i].solo_pc = RECURSION_ERROR]
    /\ UNCHANGED heap
    /\ UNCHANGED run_vars

InitConcurrent ==
    /\ runs = [i \in Runs |->
                 [state |-> [question |-> RunQuestions[i]],
                  pc |-> GRAPH_ENTRY_POINT,
                  steps |-> 0,
                  solo |-> [question |-> RunQuestions[i]],
                  solo_pc |-> GRAPH_ENTRY_POINT]]
    /\ heap = <<>>
    /\ state = [question |-> ""]
    /\ pc = GRAPH_ENTRY_POINT
    /\ trace = <<>>
    /\ routed = ""
    /\ retrieved = <<>>
    /\ retrieval_failed = FALSE
    /\ scores = <<>>
    /\ classified = <<>>
    /\ searched = NoCall
    /\ generated = NoCall
    /\ grounding = ""

NextConcurrent ==
    \E i \in Runs :
        \/ RunRoute(i)
        \/ RunRetrieve(i)
        \/ RunGradeDocuments(i)
        \/ RunWebSearch(i)
        \/ RunGenerate(i)
        \/ RunRecursionLimit(i)

SpecConcurrent == InitConcurrent /\ [][NextConcurrent]_vars

\* ------------------------------------------------------ derived values
\* Number of executions of generate so far.
gen_count == Count(trace, GENERATE)

\* The attempt counter as a caller reads it: state.get("tries", 0).
Tries == Get(state, "tries", 0)

LastNode == IF trace = <<>> THEN "" ELSE trace[Len(trace)]

TypeOK ==
    /\ DOMAIN state \subseteq GraphState
    /\ pc \in {GRAPH_ENTRY_POINT, RETRIEVE, GRADE_DOCUMENTS, WEBSEARCH, GENERATE,
               END, FAILED, RECURSION_ERROR}
    /\ Len(trace) <= MaxSteps

\* ------------------------------------------------- operators for claims
Range(seq) == { seq[i] : i \in 1..Len(seq) }

\* The documents whose grade is "yes", in the order of the input; a grade
\* of "no" and a grader error both count as not relevant.
RECURSIVE RelevantSubseq(_, _)
RelevantSubseq(documents, score) ==
    IF documents = <<>> THEN <<>>
    ELSE LET rest == RelevantSubseq(Tail(documents), Tail(score)) IN
         IF Lower(Head(score)) = "yes" THEN <<Head(documents)>> \o rest ELSE rest

\* a is b with some elements left out.
RECURSIVE IsSubsequence(_, _)
IsSubsequence(a, b) ==
    IF a = <<>> THEN TRUE
    ELSE IF b = <<>> THEN FALSE
    ELSE IF Head(a) = Head(b) THEN IsSubsequence(Tail(a), Tail(b))
    ELSE IsSubsequence(a, Tail(b))

GraderRaised == \E i \in 1..Len(scores) : scores[i] = "error"

\* RelevanceFilter dropped at least one document.
DroppedSome ==
    /\ GRADE_DOCUMENTS \in Range(trace)
    /\ \E i \in 1..Len(scores) : Lower(scores[i]) # "yes"

\* Retrieval ran and returned no document.
RetrievedNothing == RETRIEVE \in Range(trace) /\ retrieved = <<>>

\* The classifier answered websearch both to the node and to the edge.
ClassifiedWebSearch ==
    /\ routed = WEBSEARCH
    /\ Len(trace) >= 2
    /\ trace[2] = WEBSEARCH

IsWebDocument(d) == d.metadata = {}

\* ------------------------------------------------------------ the claims
\* C1: no run executes GENERATE more than MAX_RETRIES + 1 times.
C1_GenerateAtMostBudget == gen_count <= MAX_RETRIES + 1

\* C2: once GENERATE has run MAX_RETRIES + 1 times without a grounded
\* verdict and without failing, the run is in DONE and not back at GENERATE.
C2_ExhaustedBudgetEndsDone ==
    (gen_count >= MAX_RETRIES + 1 /\ LastNode = GENERATE /\ pc # FAILED)
        => pc = END

C4_TriesCountsGenerate == Tries = gen_count

\* C5: the run leaves ROUTE for the node the recorded route names, and a
\* run whose recorded route is WEB_SEARCH never executes RETRIEVE or
\* GRADE_DOCUMENTS.
C5_RunFollowsRecordedRoute ==
    /\ (Len(trace) = 1 /\ pc # RECURSION_ERROR) => pc = routed
    /\ routed = WEBSEARCH =>
         (RETRIEVE \notin Range(trace) /\ GRADE_DOCUMENTS \notin Range(trace))

\* C6: in every terminal state web_search is true exactly when the route
\* was WEB_SEARCH, or the filter dropped a document, or retrieval returned
\* no document.
C6_WebSearchFlagIff ==
    pc \in {END, FAILED} =>
        (Get(state, "web_search", FALSE)
            <=> (routed = WEBSEARCH \/ DroppedSome \/ RetrievedNothing))

\* C7: for a question the classifier maps to WEB_SEARCH the final state
\* has route = WEB_SEARCH, web_search = true and documents holding the
\* web-aggregated Document.
C7_WebSearchFinalState ==
    (pc = END /\ ClassifiedWebSearch) =>
        /\ "route" \in DOMAIN state
        /\ state["route"] = WEBSEARCH
        /\ Get(state, "web_search", FALSE)
        /\ Len(Get(state, "documents", <<>>)) >= 1
        /\ \E i \in 1..Len(Get(state, "documents", <<>>)) :
              IsWebDocument(state["documents"][i])

\* C8: a run that ends normally returns a state whose generation is
\* present and non-empty.
C8_GenerationNonEmptyAtEnd ==
    pc = END => ("generation" \in DOMAIN state /\ state["generation"] # "")

C8_Witness == pc = END /\ gen_count >= 2 /\ Get(state, "generation", "") = "answer"

\* C9: when the grader raises on a document, the filter output is still
\* the documents graded relevant, in order, and web_search is set.
C9_GraderErrorDropsOneDocument ==
    (LastNode = GRADE_DOCUMENTS /\ GraderRaised) =>
        /\ state["documents"] = RelevantSubseq(retrieved, scores)
        /\ state["web_search"] = TRUE

\* C10: when the grader grades every document, the filter output is
\* exactly the documents graded relevant in their original order; in no
\* case does the output hold a document that is not one of those, or hold
\* them in another order.
C10_FilterKeepsRelevantInOrder ==
    LastNode = GRADE_DOCUMENTS =>
        /\ ~GraderRaised => state["documents"] = RelevantSubseq(retrieved, scores)
        /\ IsSubsequence(state["documents"], RelevantSubseq(retrieved, scores))

C10_Witness ==
    /\ LastNode = GRADE_DOCUMENTS
    /\ ~GraderRaised
    /\ Len(retrieved) >= 2
    /\ retrieved[1] # retrieved[2]
    /\ state["documents"] = retrieved

\* The step is an execution of the websearch node.
WebSearchStep == trace' = Append(trace, WEBSEARCH)

\* The keys of the output record the caller is promised.
OutputRecord == {"question", "route", "web_search", "documents", "generation", "tries"}

\* C11: the flag grade_documents returns is true exactly when it dropped
\* at least one input document or its input was empty.
C11_FlagIffDroppedOrEmptyInput ==
    LastNode = GRADE_DOCUMENTS =>
        (state["web_search"]
            <=> (Len(state["documents"]) < Len(retrieved) \/ retrieved = <<>>))

\* C12: for the empty question retrieval yields no document, the filter
\* sets web_search, and WEBSEARCH runs before the first GENERATE.
C12_EmptyQuestionRunsWebSearch ==
    Get(state, "question", "") = "" =>
        /\ LastNode = GRADE_DOCUMENTS =>
              (retrieved = <<>> /\ state["web_search"] /\ pc = WEBSEARCH)
        /\ GENERATE \in Range(trace) => WEBSEARCH \in Range(trace)

\* C13: when the web search tool is not configured or raises, websearch
\* returns the documents it received unmodified and sets web_search.
C13_FailedSearchKeepsDocuments ==
    [][ (WebSearchStep /\ searched'.kind \in {"unconfigured", "error"}) =>
            /\ state'["documents"] = Get(state, "documents", <<>>)
            /\ state'["web_search"] = TRUE ]_vars

\* C14: when the web search succeeds, the documents after websearch are
\* the documents before it, in order, followed by exactly one new Document
\* whose content is the joined snippets.
C14_SearchAppendsOneDocument ==
    [][ (WebSearchStep /\ searched'.kind = "ok") =>
            LET before == Get(state, "documents", <<>>)
                after == state'["documents"]
            IN  /\ Len(after) = Len(before) + 1
                /\ SubSeq(after, 1, Len(before)) = before
                /\ IsWebDocument(after[Len(after)])
                /\ after[Len(after)].page_content = Join(searched'.results)
                /\ state'["web_search"] = TRUE ]_vars

C14_Witness ==
    /\ LastNode = WEBSEARCH
    /\ searched.kind = "ok"
    /\ Len(searched.results) = 2
    /\ Len(state["documents"]) >= 2
    /\ ~IsWebDocument(state["documents"][1])

\* C15: with the generation collaborator unconfigured, GENERATE does not
\* fail and the generation is the fixed fallback string.
C15_UnconfiguredGenerationFallsBack ==
    (LastNode = GENERATE /\ generated.kind = "unconfigured") =>
        (pc # FAILED /\ Get(state, "generation", "") = FallbackAnswer)

\* C16: a run ends with an error only when the generation collaborator
\* failed, and a generation failure always ends the run with FAILED.
C16_OnlyGenerationFailureEndsInError ==
    /\ pc \in {FAILED, RECURSION_ERROR} =>
          (LastNode = GENERATE /\ generated.kind \in {"unconfigured", "error"})
    /\ (LastNode = GENERATE /\ generated.kind = "error") => pc = FAILED

\* C17: after a generation the run goes to END exactly when documents and
\* generation are non-empty and the grounding grader answered grounded;
\* with empty documents, an empty generation or a grader error it goes
\* back to GENERATE.
C17_GroundingCheckFailsClosed ==
    (LastNode = GENERATE /\ pc \in {END, GENERATE}) =>
        (pc = END <=>
            /\ Get(state, "documents", <<>>) # <<>>
            /\ Get(state, "generation", "") # ""
            /\ grounding = "True")

C17_Witness ==
    /\ LastNode = GENERATE
    /\ pc = GENERATE
    /\ grounding = "error"
    /\ Get(state, "documents", <<>>) # <<>>
    /\ Get(state, "generation", "") # ""

\* C18: when a classifier call fails, the recorded route is KNOWLEDGE_BASE
\* and the run goes from ROUTE to RETRIEVE.
C18_ClassifierFailureGoesToRetrieve ==
    (/\ Len(trace) = 1
     /\ Get(state, "question", "") # ""
     /\ \E i \in 1..Len(classified) : classified[i] = "error")
        => (routed = RETRIEVE /\ pc = RETRIEVE)

\* C19: every state returned to the caller holds question, route,
\* web_search, documents, generation and tries.
C19_ReturnedStateHasAllKeys == pc = END => OutputRecord \subseteq DOMAIN state

\* C20: no step of a run changes question.
C20_QuestionNeverChanges ==
    [][ "question" \in DOMAIN state' /\ state'["question"] = state["question"] ]_vars

C20_Witness ==
    /\ pc = END
    /\ state["question"] # ""
    /\ RETRIEVE \in Range(trace)
    /\ WEBSEARCH \in Range(trace)

\* The run was routed to the knowledge base and went to RETRIEVE.
KnowledgeBasePath ==
    /\ routed = RETRIEVE
    /\ Len(trace) >= 2
    /\ trace[2] = RETRIEVE

\* RelevanceFilter ran on at least one document and every grade was g.
AllGraded(g) ==
    /\ GRADE_DOCUMENTS \in Range(trace)
    /\ retrieved # <<>>
    /\ \A i \in 1..Len(scores) : Lower(scores[i]) = g

HasWebDocument ==
    \E i \in 1..Len(Get(state, "documents", <<>>)) :
        IsWebDocument(state["documents"][i])

GenerateStep == trace' = Append(trace, GENERATE)

\* The grader gave equal documents equal grades.
DeterministicGrader ==
    \A i, j \in 1..Len(scores) :
        retrieved[i] = retrieved[j] => scores[i] = scores[j]

\* The grades a deterministic grader gives to documents taken from the
\* ones it has graded already.
InducedScore(documents) ==
    [i \in 1..Len(documents) |->
        scores[CHOOSE j \in 1..Len(retrieved) : retrieved[j] = documents[i]]]

\* C21: a run with an empty question never ends in an error other than
\* the recursion limit, and a state it returns holds question and
\* generation.
C21_EmptyQuestionOnlyRecursionError ==
    Get(state, "question", "") = "" =>
        /\ pc # FAILED
        /\ pc = END => {"question", "generation"} \subseteq DOMAIN state

C23_HappyPathEndsWithOneTry ==
    (/\ KnowledgeBasePath
     /\ AllGraded("yes")
     /\ LastNode = GENERATE
     /\ gen_count = 1
     /\ grounding = "True")
        => /\ pc = END
           /\ Get(state, "web_search", FALSE) = FALSE
           /\ Count(trace, WEBSEARCH) = 0
           /\ Tries = 1

\* C24: whenever documents holds a web-sourced Document, web_search is
\* true.
C24_WebDocumentImpliesFlag ==
    HasWebDocument => Get(state, "web_search", FALSE) = TRUE

C24_Witness ==
    /\ HasWebDocument
    /\ gen_count >= 2
    /\ pc = END

\* C25: every Document in the final state of a completed run has
\* non-empty content.
C25_FinalDocumentsNonEmpty ==
    pc = END =>
        \A i \in 1..Len(Get(state, "documents", <<>>)) :
            state["documents"][i].page_content # ""

\* C27: after RETRIEVE ran on an empty question or with a retriever that
\* raised, documents is the empty sequence, the run has not failed and
\* GRADE_DOCUMENTS is next.
C27_RetrieveFailsToEmpty ==
    (/\ LastNode = RETRIEVE
     /\ (Get(state, "question", "") = "" \/ retrieval_failed))
        => /\ "documents" \in DOMAIN state
           /\ state["documents"] = <<>>
           /\ pc = GRADE_DOCUMENTS

C27_Witness ==
    /\ LastNode = RETRIEVE
    /\ retrieval_failed
    /\ pc = GRADE_DOCUMENTS

\* C28: with a deterministic grader, RelevanceFilter applied again to the
\* same question and documents gives the same filtered sequence and flag,
\* and applied to its own filtered sequence returns that sequence.
C28_FilterIdempotent ==
    (LastNode = GRADE_DOCUMENTS /\ DeterministicGrader) =>
        LET input == [question |-> state["question"], documents |-> retrieved]
            again == grade_documents(input, scores)
            output == [question |-> state["question"],
                       documents |-> state["documents"]]
            twice == grade_documents(output, InducedScore(state["documents"]))
        IN  /\ again["documents"] = state["documents"]
            /\ again["web_search"] = state["web_search"]
            /\ twice["documents"] = state["documents"]

C28_Witness ==
    /\ LastNode = GRADE_DOCUMENTS
    /\ DeterministicGrader
    /\ Len(retrieved) = 2
    /\ Len(state["documents"]) = 1
    /\ state["web_search"] = TRUE

\* C29 as stated: documents is defined in every state of a run, the entry
\* state included.
C29_DocumentsAlwaysDefined == "documents" \in DOMAIN state

\* C29: once RETRIEVE or WEBSEARCH has run, and whenever GENERATE or the
\* grounding check is about to read it, documents is a defined sequence.
C29_DocumentsDefinedAfterFirstStage ==
    (\/ RETRIEVE \in Range(trace)
     \/ WEBSEARCH \in Range(trace)
     \/ pc = GENERATE
     \/ GENERATE \in Range(trace))
        => /\ "documents" \in DOMAIN state
           /\ DOMAIN state["documents"] = 1..Len(state["documents"])

C29_Witness ==
    /\ pc = GENERATE
    /\ trace = <<GRAPH_ENTRY_POINT, WEBSEARCH>>
    /\ searched.kind = "unconfigured"
    /\ state["documents"] = <<>>

\* C30: a GENERATE step, a retry included, leaves question, documents and
\* web_search as they were; only generation and tries may change.
C30_GenerateKeepsEvidence ==
    [][ GenerateStep =>
          /\ \A k \in {"question", "documents", "web_search"} :
                /\ k \in DOMAIN state
                /\ k \in DOMAIN state'
                /\ state'[k] = state[k]
          /\ \A k \in DOMAIN state' \ {"generation", "tries"} :
                k \in DOMAIN state /\ state'[k] = state[k]
          /\ \A k \in DOMAIN state : k \in DOMAIN state' ]_vars

C30_Witness ==
    /\ LastNode = GENERATE
    /\ gen_count >= 2
    /\ pc = END
    /\ state["documents"] # <<>>

\* C26: with two invocations in flight and their stages interleaved in
\* any order, each invocation is at every moment, its final state
\* included, in the state and at the node it reaches when it runs alone
\* with the same collaborator answers.
C26_ConcurrentRunsAreIsolated ==
    \A i \in Runs :
        /\ Deref(heap, runs[i].state) = runs[i].solo
        /\ runs[i].pc = runs[i].solo_pc

C26_Witness ==
    /\ \A i \in Runs : runs[i].pc = END
    /\ runs[1].state["documents"] = 3
    /\ runs[2].state["documents"] = 4
    /\ Len(heap[3]) = 2
    /\ Len(heap[4]) = 2
    /\ heap[3] # heap[4]

Documents == Get(state, "documents", <<>>)

\* Every stage in from, wherever it is followed by a stage, is followed
\* by one in to.
FollowedBy(from, to) ==
    \A i \in 1..(Len(trace) - 1) : trace[i] = from => trace[i + 1] \in to

\* C31: GRADE_DOCUMENTS is followed by WEBSEARCH when the web_search flag
\* is set and by GENERATE otherwise, WEBSEARCH by GENERATE and RETRIEVE by
\* GRADE_DOCUMENTS, whatever the collaborator of the stage did.
C31_StageSuccessors ==
    /\ LastNode = GRADE_DOCUMENTS =>
          pc = IF state["web_search"] THEN WEBSEARCH ELSE GENERATE
    /\ LastNode = WEBSEARCH => pc = GENERATE
    /\ LastNode = RETRIEVE => pc = GRADE_DOCUMENTS
    /\ FollowedBy(GRADE_DOCUMENTS, {WEBSEARCH, GENERATE})
    /\ FollowedBy(WEBSEARCH, {GENERATE})
    /\ FollowedBy(RETRIEVE, {GRADE_DOCUMENTS})

C31_Witness ==
    /\ trace = <<GRAPH_ENTRY_POINT, RETRIEVE, GRADE_DOCUMENTS, WEBSEARCH>>
    /\ GraderRaised
    /\ state["web_search"] = TRUE
    /\ searched.kind = "error"
    /\ pc = GENERATE

\* C32: RelevanceFilter calls the grader once for each input document, in
\* input order, also for the documents after one on which the grader
\* raised.
C32_EveryDocumentGraded ==
    LastNode = GRADE_DOCUMENTS =>
        grader_invocations(scores, Len(scores)) = [i \in 1..Len(retrieved) |-> i]

\* C33: a run is at END only right after a grounding check with non-empty
\* documents, a non-empty generation and the answer grounded; a run that
\* is in or past GENERATE with no documents is not at END.
C33_EndOnlyAfterGroundedCheck ==
    /\ pc = END =>
          /\ LastNode = GENERATE
          /\ Documents # <<>>
          /\ Get(state, "generation", "") # ""
          /\ grounding = "True"
    /\ ((pc = GENERATE \/ GENERATE \in Range(trace)) /\ Documents = <<>>)
          => pc # END

C33_Witness ==
    /\ pc = END
    /\ gen_count = 3
    /\ grounding = "True"
    /\ Len(Documents) = 1

\* C34: ROUTE, RETRIEVE, GRADE_DOCUMENTS and WEBSEARCH each run at most
\* once in a run, and every stage that runs after a GENERATE is a GENERATE.
C34_OnlyGenerateRepeats ==
    /\ \A n \in {GRAPH_ENTRY_POINT, RETRIEVE, GRADE_DOCUMENTS, WEBSEARCH} :
          Count(trace, n) <= 1
    /\ \A i, j \in 1..Len(trace) :
          (i < j /\ trace[i] = GENERATE) => trace[j] = GENERATE
    /\ GENERATE \in Range(trace) => pc \in {GENERATE, END, FAILED, RECURSION_ERROR}

C34_Witness ==
    /\ trace = <<GRAPH_ENTRY_POINT, RETRIEVE, GRADE_DOCUMENTS, WEBSEARCH,
                 GENERATE, GENERATE, GENERATE>>
    /\ pc = GENERATE

\* C35: once web_search is true, no step sets it back to false.
C35_WebSearchFlagMonotone ==
    [][ Get(state, "web_search", FALSE) = TRUE
            => Get(state', "web_search", FALSE) = TRUE ]_vars

C35_Witness ==
    /\ trace = <<GRAPH_ENTRY_POINT, RETRIEVE, GRADE_DOCUMENTS, WEBSEARCH, GENERATE>>
    /\ scores # <<>>
    /\ searched.kind = "unconfigured"
    /\ state["web_search"] = TRUE
    /\ pc = GENERATE

\* C36: documents is a subsequence of the documents retrieval returned,
\* followed by at most one web-aggregated Document.
C36_DocumentsFromRetrievalPlusOneWeb ==
    \E n \in {0, 1} :
        /\ n <= Len(Documents)
        /\ \A i \in (Len(Documents) - n + 1)..Len(Documents) :
              IsWebDocument(Documents[i])
        /\ IsSubsequence(SubSeq(Documents, 1, Len(Documents) - n), retrieved)

C36_Witness ==
    /\ pc = END
    /\ Len(retrieved) = 2
    /\ Len(Documents) = 2
    /\ Documents[1] = retrieved[2]
    /\ IsWebDocument(Documents[2])

====
